---- MODULE Spec2Model ----
(***************************************************************************)
(* Webhook delivery system: the ingest handler, the event store           *)
(* (collection "webhooks"), the delivery workers of the replicas and the  *)
(* process-local circuit breaker of each replica.                         *)
(*                                                                         *)
(* Time is a global integer clock in seconds; every datetime.now() in the *)
(* code reads it.  One action is one store operation (or one HTTP         *)
(* exchange) together with the process-local code around it.              *)
(***************************************************************************)
EXTENDS Integers, Sequences, FiniteSets, TLC

(***************************************************************************)
(* Bounds of the model                                                     *)
(***************************************************************************)
\* replicas, ingest requests, and the last second of the clock
NumWorkers == 2
MaxRequests == 2
MaxTime == 3

\* The configuration the model runs with, scaled down so that every part of
\* the retry schedule and of the circuit breaker happens within MaxTime.
\* settings.max_retry_attempts (default 5)
MaxRetryAttempts == 3
\* CircuitBreaker(failure_threshold, recovery_timeout, half_open_requests)
\* (defaults 5, 30.0, 3)
FailureThreshold == 2
RecoveryTimeout == 1
HalfOpenRequests == 2
\* the largest attempt number the backoff is evaluated for
MaxAttemptNumber == 12
\* the most failures recorded on one circuit breaker called on its own
MaxFailureCount == 4
\* the most times one worker is started
MaxStarts == 2

Workers == 1..NumWorkers
Requests == 1..MaxRequests

(***************************************************************************)
(* Program constants                                                       *)
(***************************************************************************)
\* None of Python / null of the store (every timestamp is >= 0)
Null == -1
\* settings.retry_base_delay, settings.retry_max_delay, settings.worker_poll_interval
RetryBaseDelay == 1
RetryMaxDelay == 16
WorkerPollInterval == 1

\* X-Idempotency-Key header values; NoKey is the absent header
IdempotencyKeys == {"k1"}
NoKey == "none"
\* outcome of one POST: the status code of the response (500 stands for every
\* status other than 200)
HttpOutcomes == {200, 500}

VARIABLES
    now,        \* the wall clock
    webhooks,   \* the collection: sequence of documents, _id = index
    reqs,       \* the ingest requests and their responses
    workers,    \* per replica: the position of its polling loop
    breakers    \* per replica: its circuit breaker

vars == <<now, webhooks, reqs, workers, breakers>>

(***************************************************************************)
(* Helpers                                                                 *)
(***************************************************************************)
Min(a, b) == IF a <= b THEN a ELSE b

RECURSIVE Pow2(_)
Pow2(n) == IF n <= 0 THEN 1 ELSE 2 * Pow2(n - 1)

IsTerminal(status) == status \in {"DELIVERED", "FAILED_PERMANENTLY"}

(***************************************************************************)
(* Model: WebhookEvent and its stored document                             *)
(***************************************************************************)
\* the fields class WebhookEvent declares (payload and event_type are carried
\* along unread by the pipeline and are left out)
WebhookEventFields ==
    { "id", "status", "received_at", "delivery_attempts", "version",
      "next_retry_at", "delivered_at", "failed_at" }

WebhookEventDefault_VersionZero(field, t) ==
    CASE field = "status"            -> "RECEIVED"
      [] field = "received_at"       -> t
      [] field = "delivery_attempts" -> <<>>
      [] field = "version"           -> 0
      [] OTHER                       -> Null

\* the defaults of the declared fields; received_at defaults to now
WebhookEventDefault(field, t) ==
    CASE field = "status"            -> "RECEIVED"
      [] field = "received_at"       -> t
      [] field = "delivery_attempts" -> <<>>
      [] field = "version"           -> 1
      [] OTHER                       -> Null

\* WebhookEvent(**kwargs): a declared field takes the keyword argument or its
\* default; a keyword argument that is no declared field is ignored
WebhookEvent(kwargs, t) ==
    [ f \in WebhookEventFields |->
        IF f \in DOMAIN kwargs THEN kwargs[f] ELSE WebhookEventDefault(f, t) ]

\* to_mongo: model_dump of the fields, without the id
ToMongo(event) == [ f \in DOMAIN event \ {"id"} |-> event[f] ]

\* DeliveryAttempt as stored by model_dump
DeliveryAttempt(attempt_number, status_code, success) ==
    [ attempt_number |-> attempt_number,
      status_code    |-> status_code,
      success        |-> success ]

NoAttempt == [ attempt_number |-> 0, status_code |-> Null, success |-> FALSE ]

(***************************************************************************)
(* Store operations of the worker                                          *)
(***************************************************************************)
Eligible_AnyStatus(doc, query_now) ==
    \/ doc.status = "RECEIVED"
    \/ /\ doc.next_retry_at # Null
       /\ doc.next_retry_at <= query_now

\* the claim query of _process_pending_events, evaluated on one document
Eligible(doc, query_now) ==
    \/ doc.status = "RECEIVED"
    \/ /\ doc.status = "PROCESSING"
       /\ doc.next_retry_at # Null
       /\ doc.next_retry_at <= query_now

ClaimUpdate_FreshRetry(doc) ==
    [doc EXCEPT !.status = "PROCESSING", !.version = @ + 1,
                !.next_retry_at = Null]

\* the update of _claim_event's find_one_and_update
ClaimUpdate(doc) ==
    [doc EXCEPT !.status = "PROCESSING", !.version = @ + 1]

MarkDelivered_NoPush(doc, attempt, t) ==
    [doc EXCEPT !.status = "DELIVERED", !.delivered_at = t]

MarkDelivered(doc, attempt, t) ==
    [doc EXCEPT !.status = "DELIVERED",
                !.delivered_at = t,
                !.delivery_attempts = Append(@, attempt)]

MarkFailedPermanently_Overwrite(doc, attempt, t) ==
    [doc EXCEPT !.status = "FAILED_PERMANENTLY",
                !.failed_at = t,
                !.delivery_attempts = <<attempt>>]

MarkFailedPermanently(doc, attempt, t) ==
    [doc EXCEPT !.status = "FAILED_PERMANENTLY",
                !.failed_at = t,
                !.delivery_attempts = Append(@, attempt)]

Delay_Linear(attempt_number) ==
    Min(RetryBaseDelay * attempt_number, RetryMaxDelay)

\* delay = min(retry_base_delay * 2 ** (attempt_number - 1), retry_max_delay)
Delay(attempt_number) ==
    Min(RetryBaseDelay * Pow2(attempt_number - 1), RetryMaxDelay)

ScheduleRetry_CountsRejection(doc, attempt_number, attempt, t) ==
    [doc EXCEPT !.next_retry_at = t + Delay(attempt_number),
                !.delivery_attempts =
                    IF attempt # NoAttempt THEN Append(@, attempt)
                    ELSE Append(@, DeliveryAttempt(attempt_number, Null, FALSE))]

ScheduleRetry(doc, attempt_number, attempt, t) ==
    [doc EXCEPT !.next_retry_at = t + Delay(attempt_number),
                !.delivery_attempts =
                    IF attempt # NoAttempt THEN Append(@, attempt) ELSE @]

ReachedMaxAttempts_OffByOne(attempt_number) ==
    attempt_number + 1 >= MaxRetryAttempts

\* if attempt_number >= settings.max_retry_attempts
ReachedMaxAttempts(attempt_number) == attempt_number >= MaxRetryAttempts

HandleFailure_KeepsRetryTime(doc, attempt, attempt_number, t) ==
    IF ReachedMaxAttempts(attempt_number)
    THEN MarkFailedPermanently(doc, attempt, t)
    ELSE [doc EXCEPT !.delivery_attempts = Append(@, attempt)]

\* _handle_failure: the store write after a failed attempt
HandleFailure(doc, attempt, attempt_number, t) ==
    IF ReachedMaxAttempts(attempt_number)
    THEN MarkFailedPermanently(doc, attempt, t)
    ELSE ScheduleRetry(doc, attempt_number, attempt, t)

(***************************************************************************)
(* Circuit breaker                                                         *)
(***************************************************************************)
NewCircuitBreaker ==
    [ state             |-> "CLOSED",
      failure_count     |-> 0,
      success_count     |-> 0,
      last_failure_time |-> Null ]

CanExecute_AtTimeout(cb, t) ==
    IF cb.state = "CLOSED" THEN [ok |-> TRUE, cb |-> cb]
    ELSE IF cb.state = "OPEN" THEN
        IF cb.last_failure_time # Null /\ t - cb.last_failure_time >= RecoveryTimeout
        THEN [ok |-> TRUE,
              cb |-> [cb EXCEPT !.state = "HALF_OPEN", !.success_count = 0]]
        ELSE [ok |-> FALSE, cb |-> cb]
    ELSE [ok |-> TRUE, cb |-> cb]

\* can_execute: the answer and the breaker afterwards
CanExecute(cb, t) ==
    IF cb.state = "CLOSED" THEN [ok |-> TRUE, cb |-> cb]
    ELSE IF cb.state = "OPEN" THEN
        IF cb.last_failure_time # Null /\ t - cb.last_failure_time > RecoveryTimeout
        THEN [ok |-> TRUE,
              cb |-> [cb EXCEPT !.state = "HALF_OPEN", !.success_count = 0]]
        ELSE [ok |-> FALSE, cb |-> cb]
    ELSE [ok |-> TRUE, cb |-> cb]

RecordSuccess_OneMore(cb) ==
    IF cb.state = "HALF_OPEN" THEN
        IF cb.success_count + 1 > HalfOpenRequests
        THEN [cb EXCEPT !.success_count = @ + 1, !.state = "CLOSED",
                        !.failure_count = 0]
        ELSE [cb EXCEPT !.success_count = @ + 1]
    ELSE [cb EXCEPT !.failure_count = 0]

RecordSuccess_ClosesFromOpen(cb) ==
    IF cb.state # "CLOSED" THEN
        IF cb.success_count + 1 >= HalfOpenRequests
        THEN [cb EXCEPT !.success_count = @ + 1, !.state = "CLOSED",
                        !.failure_count = 0]
        ELSE [cb EXCEPT !.success_count = @ + 1]
    ELSE [cb EXCEPT !.failure_count = 0]

RecordSuccess(cb) ==
    IF cb.state = "HALF_OPEN" THEN
        IF cb.success_count + 1 >= HalfOpenRequests
        THEN [cb EXCEPT !.success_count = @ + 1, !.state = "CLOSED",
                        !.failure_count = 0]
        ELSE [cb EXCEPT !.success_count = @ + 1]
    ELSE [cb EXCEPT !.failure_count = 0]

RecordFailure_LateOpen(cb, t) ==
    LET c == [cb EXCEPT !.failure_count = @ + 1, !.last_failure_time = t]
    IN  IF c.state = "HALF_OPEN" THEN [c EXCEPT !.state = "OPEN"]
        ELSE IF c.state = "CLOSED" /\ c.failure_count > FailureThreshold
             THEN [c EXCEPT !.state = "OPEN"]
             ELSE c

RecordFailure(cb, t) ==
    LET c == [cb EXCEPT !.failure_count = @ + 1, !.last_failure_time = t]
    IN  IF c.state = "HALF_OPEN" THEN [c EXCEPT !.state = "OPEN"]
        ELSE IF c.state = "CLOSED" /\ c.failure_count >= FailureThreshold
             THEN [c EXCEPT !.state = "OPEN"]
             ELSE c

(***************************************************************************)
(* Initial state                                                           *)
(***************************************************************************)
\* a started worker between two polls: start() has set _running and created
\* the one task that runs _run
IdleWorker(sleep_left) ==
    [ pc |-> "sleep", sleep_left |-> sleep_left, query_now |-> Null,
      event |-> 0, attempt_number |-> 0, running |-> TRUE, tasks |-> 1,
      starts |-> 1 ]

NewRequest ==
    [ pc |-> "new", key |-> NoKey, after |-> {},
      id |-> 0, received_at |-> Null ]

Init ==
    /\ now = 0
    /\ webhooks = <<>>
    /\ reqs = [r \in Requests |-> NewRequest]
    /\ workers = [w \in Workers |-> IdleWorker(0)]
    /\ breakers = [w \in Workers |-> NewCircuitBreaker]

(***************************************************************************)
(* Ingest handler                                                          *)
(***************************************************************************)
\* db.webhooks.find_one({"idempotency_key": key}): the ids of the matches
FindByIdempotencyKey(key) ==
    { i \in 1..Len(webhooks) :
        /\ "idempotency_key" \in DOMAIN webhooks[i]
        /\ webhooks[i].idempotency_key = key }

Done(r) == reqs[r].pc = "done"

\* ingest_webhook of a request that carries X-Idempotency-Key, up to the
\* lookup: a duplicate is answered from the stored document, otherwise the
\* handler goes on to the insert.  Requests are numbered in arrival order.
IngestLookup(r) ==
    /\ reqs[r].pc = "new"
    /\ \A q \in Requests : q < r => reqs[q].pc # "new"
    /\ \E key \in IdempotencyKeys :
         LET found == FindByIdempotencyKey(key)
             returned == { q \in Requests : Done(q) }
         IN  IF found # {}
             THEN \E i \in found :
                    reqs' = [reqs EXCEPT ![r] =
                        [ pc |-> "done", key |-> key, after |-> returned,
                          id |-> i, received_at |-> webhooks[i].received_at ]]
             ELSE reqs' = [reqs EXCEPT ![r] =
                        [ pc |-> "insert", key |-> key, after |-> returned,
                          id |-> 0, received_at |-> Null ]]
    /\ UNCHANGED <<now, webhooks, workers, breakers>>

\* the rest of ingest_webhook: build the event, insert_one, respond
InsertAndRespond_ReplaceLast(r, key, after) ==
    LET event == WebhookEvent([ status |-> "RECEIVED", received_at |-> now,
                                idempotency_key |-> key ], now)
        kept == IF webhooks = <<>> THEN <<>>
                ELSE SubSeq(webhooks, 1, Len(webhooks) - 1)
    IN  /\ webhooks' = Append(kept, ToMongo(event))
        /\ reqs' = [reqs EXCEPT ![r] =
              [ pc |-> "done", key |-> key, after |-> after,
                id |-> Len(kept) + 1, received_at |-> event.received_at ]]

InsertAndRespond(r, key, after) ==
    LET event == WebhookEvent([ status |-> "RECEIVED", received_at |-> now,
                                idempotency_key |-> key ], now)
    IN  /\ webhooks' = Append(webhooks, ToMongo(event))
        /\ reqs' = [reqs EXCEPT ![r] =
              [ pc |-> "done", key |-> key, after |-> after,
                id |-> Len(webhooks) + 1, received_at |-> event.received_at ]]

\* ingest_webhook after a lookup that found nothing
IngestInsert(r) ==
    /\ reqs[r].pc = "insert"
    /\ InsertAndRespond(r, reqs[r].key, reqs[r].after)
    /\ UNCHANGED <<now, workers, breakers>>

\* ingest_webhook of a request without X-Idempotency-Key: no lookup is made
IngestNoKey(r) ==
    /\ reqs[r].pc = "new"
    /\ \A q \in Requests : q < r => reqs[q].pc # "new"
    /\ InsertAndRespond(r, NoKey, { q \in Requests : Done(q) })
    /\ UNCHANGED <<now, workers, breakers>>

(***************************************************************************)
(* HMAC signatures and the requests ingest_webhook turns away              *)
(***************************************************************************)
\* Settings.hmac_secret
HmacSecret == "dev-secret-key"

\* the secret argument of validate_signature / generate_signature: absent
\* (None), empty, the configured one, another one
NoSecret == "<None>"

Secrets == {NoSecret, "", HmacSecret, "other-secret"}

\* request bodies: a JSON object, JSON that is no object, no JSON at all
JsonObjects == {"{\"event_type\": \"order\"}"}

JsonNonObjects == {"[1, 2]"}

InvalidJson == {"{not json"}

Bodies == JsonObjects \cup JsonNonObjects \cup InvalidJson

\* hmac.new(key, payload, sha256).hexdigest(): an ASCII string that names
\* its key and payload (no collisions)
HexDigest(key, payload) == [ kind |-> "hex", key |-> key, payload |-> payload ]

\* values of X-Signature that are no digest: the header is absent, it is
\* empty, it is ASCII text, it holds a character outside ASCII
OtherSignature(kind) == [ kind |-> kind, key |-> "", payload |-> "" ]

NoSignature == OtherSignature("none")

Signatures ==
    { HexDigest(k, b) : k \in {HmacSecret, "other-secret"}, b \in Bodies }
        \cup { OtherSignature(k) : k \in {"none", "empty", "ascii", "non_ascii"} }

\* secret or settings.hmac_secret
SecretKey(secret) == IF secret \in {NoSecret, ""} THEN HmacSecret ELSE secret

\* generate_signature
GenerateSignature(payload, secret) == HexDigest(SecretKey(secret), payload)

ValidateSignature_ConfigSecret(payload, signature, secret) ==
    IF signature.kind \in {"none", "empty"} THEN "HMACValidationError"
    ELSE IF signature.kind = "non_ascii" THEN "TypeError"
    ELSE IF signature # HexDigest(HmacSecret, payload) THEN "HMACValidationError"
    ELSE "True"

\* validate_signature: "True", or the exception it raises.  compare_digest
\* raises TypeError for a str with a character outside ASCII.
ValidateSignature(payload, signature, secret) ==
    IF signature.kind \in {"none", "empty"} THEN "HMACValidationError"
    ELSE IF signature.kind = "non_ascii" THEN "TypeError"
    ELSE IF signature # HexDigest(SecretKey(secret), payload) THEN "HMACValidationError"
    ELSE "True"

\* events_received_total: incremented once after every insert_one, by the
\* handler that made the insert; nothing deletes a record
EVENTS_RECEIVED == Len(webhooks)

\* the status code ingest_webhook answers with; existing tells whether the
\* idempotency lookup found a record.  X-Signature is a required header:
\* without it the framework answers 422 before the handler runs.  An
\* exception other than HTTPException reaches the global handler: 500.
IngestResponseStatus(x_signature, body, existing) ==
    IF x_signature.kind = "none" THEN 422
    ELSE LET valid == ValidateSignature(body, x_signature, NoSecret)
         IN  IF valid = "HMACValidationError" THEN 401
             ELSE IF valid # "True" THEN 500
             ELSE IF body \in InvalidJson THEN 400
             ELSE IF existing THEN 200
             ELSE IF body \notin JsonObjects THEN 500
             ELSE 200

\* ingest_webhook of a request that is answered with an error
IngestRejected(r) ==
    /\ reqs[r].pc = "new"
    /\ \A q \in Requests : q < r => reqs[q].pc # "new"
    /\ \E x_signature \in Signatures, body \in Bodies,
          key \in IdempotencyKeys \cup {NoKey} :
         LET existing == key # NoKey /\ FindByIdempotencyKey(key) # {}
             status_code == IngestResponseStatus(x_signature, body, existing)
         IN  /\ status_code # 200
             /\ reqs' = [reqs EXCEPT ![r] =
                   [ pc |-> "rejected", key |-> key,
                     after |-> { q \in Requests : Done(q) },
                     id |-> 0, received_at |-> Null,
                     status_code |-> status_code,
                     x_signature |-> x_signature, body |-> body ]]
    /\ UNCHANGED <<now, webhooks, workers, breakers>>

(***************************************************************************)
(* Delivery worker                                                         *)
(***************************************************************************)
\* _run / _process_pending_events: the sleep is over, a tick starts and fixes
\* the now of the claim query
TickStart(w) ==
    /\ workers[w].pc = "sleep"
    /\ workers[w].sleep_left = 0
    /\ workers' = [workers EXCEPT ![w].pc = "drain", ![w].query_now = now]
    /\ UNCHANGED <<now, webhooks, reqs, breakers>>

EligibleIds(query_now) ==
    { i \in 1..Len(webhooks) : Eligible(webhooks[i], query_now) }

\* _claim_event returns an event; _deliver_event computes attempt_number and
\* asks the circuit breaker
ClaimEvent(w) ==
    /\ workers[w].pc = "drain"
    /\ \E i \in EligibleIds(workers[w].query_now) :
         LET result == ClaimUpdate(webhooks[i])
             can == CanExecute(breakers[w], now)
         IN  /\ webhooks' = [webhooks EXCEPT ![i] = result]
             /\ breakers' = [breakers EXCEPT ![w] = can.cb]
             /\ workers' = [workers EXCEPT
                    ![w].pc = IF can.ok THEN "posting" ELSE "skipped",
                    ![w].event = i,
                    ![w].attempt_number = Len(result.delivery_attempts) + 1]
    /\ UNCHANGED <<now, reqs>>

\* _claim_event returns None: the drain loop ends and the worker sleeps
DrainEnd(w) ==
    /\ workers[w].pc = "drain"
    /\ EligibleIds(workers[w].query_now) = {}
    /\ workers' = [workers EXCEPT ![w] =
          [IdleWorker(WorkerPollInterval) EXCEPT !.starts = workers[w].starts]]
    /\ UNCHANGED <<now, webhooks, reqs, breakers>>

\* _deliver_event when the circuit breaker refused: schedule_retry, no attempt
DeliverSkipped(w) ==
    /\ workers[w].pc = "skipped"
    /\ LET i == workers[w].event
       IN  webhooks' = [webhooks EXCEPT ![i] =
                  ScheduleRetry(@, workers[w].attempt_number, NoAttempt, now)]
    /\ workers' = [workers EXCEPT ![w].pc = "drain", ![w].event = 0,
                                  ![w].attempt_number = 0]
    /\ UNCHANGED <<now, reqs, breakers>>

\* the POST answers 200
DeliverSuccess(w) ==
    /\ workers[w].pc = "posting"
    /\ LET i == workers[w].event
           attempt == DeliveryAttempt(workers[w].attempt_number, 200, TRUE)
       IN  webhooks' = [webhooks EXCEPT ![i] = MarkDelivered(@, attempt, now)]
    /\ breakers' = [breakers EXCEPT ![w] = RecordSuccess(@)]
    /\ workers' = [workers EXCEPT ![w].pc = "drain", ![w].event = 0,
                                  ![w].attempt_number = 0]
    /\ UNCHANGED <<now, reqs>>

\* the POST answers another status, times out or fails in transport
DeliverFailure(w) ==
    /\ workers[w].pc = "posting"
    /\ \E code \in HttpOutcomes \ {200} :
         LET i == workers[w].event
             n == workers[w].attempt_number
             attempt == DeliveryAttempt(n, code, FALSE)
         IN  webhooks' = [webhooks EXCEPT ![i] = HandleFailure(@, attempt, n, now)]
    /\ breakers' = [breakers EXCEPT ![w] = RecordFailure(@, now)]
    /\ workers' = [workers EXCEPT ![w].pc = "drain", ![w].event = 0,
                                  ![w].attempt_number = 0]
    /\ UNCHANGED <<now, reqs>>

\* time passes: one second, also of every running asyncio.sleep
Tick ==
    /\ now < MaxTime
    /\ now' = now + 1
    /\ workers' = [w \in Workers |->
          IF workers[w].pc = "sleep" /\ workers[w].sleep_left > 0
          THEN [workers[w] EXCEPT !.sleep_left = @ - 1]
          ELSE workers[w]]
    /\ UNCHANGED <<webhooks, reqs, breakers>>

Next ==
    \/ \E r \in Requests : IngestLookup(r) \/ IngestInsert(r) \/ IngestNoKey(r)
    \/ \E w \in Workers :
         \/ TickStart(w)
         \/ ClaimEvent(w)
         \/ DrainEnd(w)
         \/ DeliverSkipped(w)
         \/ DeliverSuccess(w)
         \/ DeliverFailure(w)
    \/ Tick

Spec == Init /\ [][Next]_vars

\* a deployment of one replica: only the first worker runs
NextSingleReplica ==
    \/ \E r \in Requests : IngestLookup(r) \/ IngestInsert(r) \/ IngestNoKey(r)
    \/ \E w \in {1} :
         \/ TickStart(w)
         \/ ClaimEvent(w)
         \/ DrainEnd(w)
         \/ DeliverSkipped(w)
         \/ DeliverSuccess(w)
         \/ DeliverFailure(w)
    \/ Tick

SingleReplicaSpec == Init /\ [][NextSingleReplica]_vars

(***************************************************************************)
(* Workers that stop, under fair scheduling                                *)
(***************************************************************************)
\* stop() or the death of the process: the task is cancelled wherever it
\* is, also between the claim of an event and the write of its outcome; the
\* last worker keeps running
Stop(w) ==
    /\ workers[w].pc # "stopped"
    /\ \E v \in Workers \ {w} : workers[v].pc # "stopped"
    /\ workers' = [workers EXCEPT ![w].pc = "stopped",
                                  ![w].running = FALSE,
                                  ![w].tasks = 0]
    /\ UNCHANGED <<now, webhooks, reqs, breakers>>

\* the clock shows its last second and time goes on: the sleeps still end
SleepElapses ==
    /\ now = MaxTime
    /\ \E w \in Workers : workers[w].pc = "sleep" /\ workers[w].sleep_left > 0
    /\ workers' = [w \in Workers |->
          IF workers[w].pc = "sleep" /\ workers[w].sleep_left > 0
          THEN [workers[w] EXCEPT !.sleep_left = @ - 1]
          ELSE workers[w]]
    /\ UNCHANGED <<now, webhooks, reqs, breakers>>

\* one step of the polling loop of worker w
WorkerStep(w) ==
    \/ TickStart(w)
    \/ ClaimEvent(w)
    \/ DrainEnd(w)
    \/ DeliverSkipped(w)
    \/ DeliverSuccess(w)
    \/ DeliverFailure(w)

NextFair ==
    \/ \E r \in Requests : IngestNoKey(r)
    \/ \E w \in Workers :
         \/ TickStart(w)
         \/ ClaimEvent(w)
         \/ DrainEnd(w)
         \/ DeliverSkipped(w)
         \/ DeliverSuccess(w)
         \/ DeliverFailure(w)
    \/ \E w \in {1} : Stop(w)
    \/ Tick
    \/ SleepElapses

\* the event loop runs every task that can run, every POST returns (the
\* client has a timeout) and time passes
FairSpec ==
    /\ Init
    /\ [][NextFair]_vars
    /\ \A w \in Workers : WF_vars(WorkerStep(w))
    /\ WF_vars(Tick)
    /\ WF_vars(SleepElapses)

(***************************************************************************)
(* The circuit breaker called on its own, its methods in any order         *)
(***************************************************************************)
CallCanExecute(w) ==
    /\ breakers' = [breakers EXCEPT ![w] = CanExecute(@, now).cb]
    /\ UNCHANGED <<now, webhooks, reqs, workers>>

CallRecordSuccess(w) ==
    /\ breakers' = [breakers EXCEPT ![w] = RecordSuccess(@)]
    /\ UNCHANGED <<now, webhooks, reqs, workers>>

CallRecordFailure(w) ==
    /\ breakers[w].failure_count < MaxFailureCount
    /\ breakers' = [breakers EXCEPT ![w] = RecordFailure(@, now)]
    /\ UNCHANGED <<now, webhooks, reqs, workers>>

NextCircuitBreaker ==
    \/ \E w \in Workers :
         \/ CallCanExecute(w)
         \/ CallRecordSuccess(w)
         \/ CallRecordFailure(w)
    \/ Tick

CircuitBreakerSpec == Init /\ [][NextCircuitBreaker]_vars

(***************************************************************************)
(* start() and stop() of one replica                                       *)
(***************************************************************************)
StartUpdate_Always(wk) ==
    [ IdleWorker(0) EXCEPT !.tasks = wk.tasks + 1, !.starts = wk.starts + 1 ]

\* start(): nothing when _running is set, otherwise _running is set and a
\* task is created that enters _run
StartUpdate(wk) ==
    IF wk.running
    THEN wk
    ELSE [ IdleWorker(0) EXCEPT !.tasks = wk.tasks + 1, !.starts = wk.starts + 1 ]

\* a call of start(); a worker is started MaxStarts times at most
Start(w) ==
    /\ workers[w].running \/ workers[w].starts < MaxStarts
    /\ workers' = [workers EXCEPT ![w] = StartUpdate(@)]
    /\ UNCHANGED <<now, webhooks, reqs, breakers>>

NextLifecycle ==
    \/ \E r \in Requests : IngestLookup(r) \/ IngestInsert(r) \/ IngestNoKey(r)
    \/ \E w \in {1} :
         \/ TickStart(w)
         \/ ClaimEvent(w)
         \/ DrainEnd(w)
         \/ DeliverSkipped(w)
         \/ DeliverSuccess(w)
         \/ DeliverFailure(w)
         \/ Start(w)
         \/ Stop(w)
    \/ Tick

LifecycleSpec == Init /\ [][NextLifecycle]_vars

(***************************************************************************)
(* A store that fails for a while, one replica, fair scheduling            *)
(***************************************************************************)
AfterError_LoopEnds(wk) ==
    [ wk EXCEPT !.pc = "stopped", !.running = FALSE, !.tasks = 0 ]

\* _run after an error: _claim_event returned None and the drain loop
\* ended, or an exception reached except Exception; either way the task
\* sleeps worker_poll_interval and the while loop goes on
AfterError(wk) ==
    [ IdleWorker(WorkerPollInterval) EXCEPT !.starts = wk.starts ]

\* find_one_and_update raises: _claim_event logs and returns None.  The
\* store fails only before the last second of the clock.
ClaimError(w) ==
    /\ workers[w].pc = "drain"
    /\ now < MaxTime
    /\ workers' = [workers EXCEPT ![w] = AfterError(@)]
    /\ UNCHANGED <<now, webhooks, reqs, breakers>>

\* _deliver_event when every update_one of the outcome raises: after a
\* refusal of the circuit breaker the exception of _schedule_retry leaves
\* _deliver_event at once; after a POST it is raised by the write in the try
\* block, caught by except Exception (record_failure) and raised again by
\* _handle_failure there; a non-200 answer had recorded one failure before
DeliverStoreError(w) ==
    /\ workers[w].pc \in {"posting", "skipped"}
    /\ now < MaxTime
    /\ IF workers[w].pc = "skipped"
       THEN breakers' = breakers
       ELSE \E code \in HttpOutcomes :
              breakers' = [breakers EXCEPT ![w] =
                  IF code = 200
                  THEN RecordFailure(@, now)
                  ELSE RecordFailure(RecordFailure(@, now), now)]
    /\ workers' = [workers EXCEPT ![w] = AfterError(@)]
    /\ UNCHANGED <<now, webhooks, reqs>>

\* _deliver_event when the first update_one of the outcome raises and the
\* one made by except Exception succeeds: _handle_failure writes the attempt
\* as it stands, also the attempt of a POST that was answered 200
DeliverWriteRetried(w) ==
    /\ workers[w].pc = "posting"
    /\ now < MaxTime
    /\ \E code \in HttpOutcomes :
         LET i == workers[w].event
             n == workers[w].attempt_number
             attempt == DeliveryAttempt(n, code, code = 200)
         IN  /\ webhooks' = [webhooks EXCEPT ![i] = HandleFailure(@, attempt, n, now)]
             /\ breakers' = [breakers EXCEPT ![w] =
                    IF code = 200
                    THEN RecordFailure(@, now)
                    ELSE RecordFailure(RecordFailure(@, now), now)]
    /\ workers' = [workers EXCEPT ![w].pc = "drain", ![w].event = 0,
                                  ![w].attempt_number = 0]
    /\ UNCHANGED <<now, reqs>>

NextStoreError ==
    \/ \E r \in Requests : IngestLookup(r) \/ IngestInsert(r) \/ IngestNoKey(r)
    \/ \E w \in {1} :
         \/ TickStart(w)
         \/ ClaimEvent(w)
         \/ DrainEnd(w)
         \/ DeliverSkipped(w)
         \/ DeliverSuccess(w)
         \/ DeliverFailure(w)
         \/ ClaimError(w)
         \/ DeliverStoreError(w)
         \/ DeliverWriteRetried(w)
    \/ Tick
    \/ SleepElapses

\* the event loop runs the task when it can run, every POST returns and
\* time passes
StoreErrorSpec ==
    /\ Init
    /\ [][NextStoreError]_vars
    /\ WF_vars(WorkerStep(1))
    /\ WF_vars(Tick)
    /\ WF_vars(SleepElapses)

(***************************************************************************)
(* The ingest endpoint alone                                               *)
(***************************************************************************)
NextIngest ==
    \/ \E r \in Requests :
         \/ IngestLookup(r)
         \/ IngestInsert(r)
         \/ IngestNoKey(r)
         \/ IngestRejected(r)
    \/ Tick

IngestSpec == Init /\ [][NextIngest]_vars

(***************************************************************************)
(* generate_signature and validate_signature, called directly              *)
(***************************************************************************)
\* a caller holds a body and a secret
InitHmac ==
    /\ now = 0
    /\ webhooks = <<>>
    /\ workers = [w \in Workers |-> IdleWorker(0)]
    /\ breakers = [w \in Workers |-> NewCircuitBreaker]
    /\ reqs \in [Requests ->
          { [ pc |-> "unsigned", body |-> b, secret |-> s,
              x_signature |-> NoSignature, result |-> "none" ] :
                b \in Bodies, s \in Secrets }]

\* signature = generate_signature(payload, secret)
Generate(r) ==
    /\ reqs[r].pc = "unsigned"
    /\ reqs' = [reqs EXCEPT ![r].pc = "signed",
                            ![r].x_signature =
                                GenerateSignature(reqs[r].body, reqs[r].secret)]
    /\ UNCHANGED <<now, webhooks, workers, breakers>>

\* validate_signature(payload, signature, secret), with the generated
\* signature or any other, for the signed body and secret or any other
Validate(r) ==
    /\ reqs[r].pc = "signed"
    /\ \E payload \in Bodies, secret \in Secrets,
          signature \in Signatures \cup {reqs[r].x_signature} :
         reqs' = [reqs EXCEPT ![r] =
            [ pc |-> "validated", body |-> payload, secret |-> secret,
              x_signature |-> signature,
              result |-> ValidateSignature(payload, signature, secret) ]]
    /\ UNCHANGED <<now, webhooks, workers, breakers>>

NextHmac == \E r \in Requests : Generate(r) \/ Validate(r)

HmacSpec == InitHmac /\ [][NextHmac]_vars

(***************************************************************************)
(* Properties                                                              *)
(***************************************************************************)
Ids == 1..Len(webhooks)
Attempts(i) == webhooks[i].delivery_attempts
LastAttempt(i) == Attempts(i)[Len(Attempts(i))]
\* worker w has claimed an event and has not yet written its outcome
Holds(w) == workers[w].pc \in {"posting", "skipped"}

\* C1: an event a claim has returned to one worker is returned to no other
\* worker before the first has written its outcome: no two workers hold the
\* same event at the same time.
C1_AtMostOneHolder ==
    \A w1, w2 \in Workers :
        (w1 # w2 /\ Holds(w1) /\ Holds(w2)) =>
            workers[w1].event # workers[w2].event

\* C2: the attempt_number values stored for an event are 1, 2, ..., N in
\* order, without gap or duplicate.
C2_AttemptNumbersSequential ==
    \A i \in Ids :
        \A k \in 1..Len(Attempts(i)) : Attempts(i)[k].attempt_number = k

\* the ids that the finished requests carrying key got in their responses
IdsAnsweredFor(key) ==
    { reqs[r].id : r \in { q \in Requests : Done(q) /\ reqs[q].key = key } }

\* C3: of two ingests with the same X-Idempotency-Key, the second starting
\* after the first has returned, the second is answered with the id and
\* received_at of the first and one record exists for the key.
C3_SequentialDuplicateAnswered ==
    \A r1, r2 \in Requests :
        ( /\ Done(r1) /\ Done(r2)
          /\ r1 \in reqs[r2].after
          /\ reqs[r1].key # NoKey
          /\ reqs[r1].key = reqs[r2].key )
        => /\ reqs[r2].id = reqs[r1].id
           /\ reqs[r2].received_at = reqs[r1].received_at
           /\ Cardinality(IdsAnsweredFor(reqs[r1].key)) = 1

\* C4: two ingests with the same X-Idempotency-Key that overlap in time
\* (neither starts after the other has returned) never leave two records
\* for the key in the store.
C4_ConcurrentKeyUnique ==
    \A r1, r2 \in Requests :
        ( /\ r1 # r2
          /\ Done(r1) /\ Done(r2)
          /\ r1 \notin reqs[r2].after /\ r2 \notin reqs[r1].after
          /\ reqs[r1].key # NoKey
          /\ reqs[r1].key = reqs[r2].key )
        => reqs[r1].id = reqs[r2].id

\* C5: an event that is DELIVERED or FAILED_PERMANENTLY has next_retry_at
\* null.
C5_TerminalHasNoRetryTime ==
    \A i \in Ids :
        IsTerminal(webhooks[i].status) => webhooks[i].next_retry_at = Null

\* C6: an event is DELIVERED if and only if its last attempt is a success
\* with status code 200.
C6_DeliveredIffLastAttemptSucceeded ==
    \A i \in Ids :
        (webhooks[i].status = "DELIVERED")
        <=> ( /\ Len(Attempts(i)) > 0
              /\ LastAttempt(i).success
              /\ LastAttempt(i).status_code = 200 )

\* C7: an event that is FAILED_PERMANENTLY has exactly max_retry_attempts
\* attempts and its last attempt failed.
C7_FailedHasExactlyMaxAttempts ==
    \A i \in Ids :
        webhooks[i].status = "FAILED_PERMANENTLY" =>
            /\ Len(Attempts(i)) = MaxRetryAttempts
            /\ ~LastAttempt(i).success

C9_TerminalStatusFrozen ==
    [][ \A i \in Ids :
          IsTerminal(webhooks[i].status) =>
              webhooks'[i].status = webhooks[i].status ]_vars

\* C10: no event moves from DELIVERED or FAILED_PERMANENTLY back to RECEIVED
\* or PROCESSING.
C10_TerminalNeverReopened ==
    [][ \A i \in Ids :
          IsTerminal(webhooks[i].status) => IsTerminal(webhooks'[i].status) ]_vars

\* a terminal event that was written again after it became terminal, while a
\* worker polls with a query time its stale next_retry_at has reached
C10_Witness ==
    \E i \in Ids :
        /\ IsTerminal(webhooks[i].status)
        /\ webhooks[i].delivered_at # Null
        /\ webhooks[i].failed_at # Null
        /\ \E w \in Workers :
             /\ workers[w].pc = "drain"
             /\ webhooks[i].next_retry_at # Null
             /\ webhooks[i].next_retry_at <= workers[w].query_now

\* C11: after an event has reached DELIVERED or FAILED_PERMANENTLY no further
\* delivery attempt is appended to it.
C11_NoAttemptAfterTerminal ==
    [][ \A i \in Ids :
          IsTerminal(webhooks[i].status) =>
              webhooks'[i].delivery_attempts = webhooks[i].delivery_attempts ]_vars

\* C12: every write to a stored event (claim, mark_delivered,
\* mark_failed_permanent, schedule_retry) leaves its version strictly greater
\* than before.
C12_EveryMutationBumpsVersion ==
    [][ \A i \in Ids :
          webhooks'[i] # webhooks[i] =>
              webhooks'[i].version > webhooks[i].version ]_vars

\* C15: when can_execute has returned false for a claimed event, the write
\* that follows appends no attempt, makes no POST, leaves the status
\* PROCESSING and sets next_retry_at to now + backoff(len(delivery_attempts) + 1).
C15_SkipConsumesNoAttempt ==
    [][ \A w \in Workers :
          (workers[w].pc = "skipped" /\ workers'[w].pc # "skipped") =>
              LET i == workers[w].event
              IN  /\ workers'[w].pc = "drain"
                  /\ webhooks'[i].delivery_attempts = webhooks[i].delivery_attempts
                  /\ webhooks'[i].status = "PROCESSING"
                  /\ webhooks'[i].next_retry_at =
                        now + Delay(Len(webhooks'[i].delivery_attempts) + 1) ]_vars

\* worker w's POST has returned and this step writes a success
PostSucceeded(w) ==
    LET i == workers[w].event
    IN  /\ Len(webhooks'[i].delivery_attempts) = Len(webhooks[i].delivery_attempts) + 1
        /\ webhooks'[i].delivery_attempts[Len(webhooks'[i].delivery_attempts)].success

\* C19: after every outcome of the POST of attempt n other than a 200, a failed
\* attempt numbered n is appended and record_failure is called; with
\* n >= max_retry_attempts the event is FAILED_PERMANENTLY with failed_at set,
\* otherwise its status is PROCESSING and next_retry_at = now + backoff(n).
C19_FailureHandling ==
    [][ \A w \in Workers :
          ( /\ workers[w].pc = "posting"
            /\ workers'[w].pc # "posting"
            /\ ~PostSucceeded(w) ) =>
              LET i == workers[w].event
                  n == workers[w].attempt_number
                  after == webhooks'[i]
              IN  /\ Len(after.delivery_attempts) = Len(webhooks[i].delivery_attempts) + 1
                  /\ after.delivery_attempts[Len(after.delivery_attempts)].attempt_number = n
                  /\ ~after.delivery_attempts[Len(after.delivery_attempts)].success
                  /\ breakers'[w].failure_count = breakers[w].failure_count + 1
                  /\ breakers'[w].last_failure_time = now
                  /\ IF n >= MaxRetryAttempts
                     THEN /\ after.status = "FAILED_PERMANENTLY"
                          /\ after.failed_at = now
                     ELSE /\ after.status = "PROCESSING"
                          /\ after.next_retry_at = now + Delay(n) ]_vars

\* C20: a retry scheduled for attempt n is due min(retry_base_delay * 2^(n-1),
\* retry_max_delay) seconds from now: 1, 2, 4, 8, 16 seconds for n = 1..5,
\* never more than retry_max_delay, and non-decreasing in n.
C20_BackoffSchedule ==
    \A i \in Ids :
        LET due(n) == ScheduleRetry(webhooks[i], n, NoAttempt, now).next_retry_at
            delay(n) == due(n) - now
        IN  /\ [n \in 1..5 |-> delay(n)] = <<1, 2, 4, 8, 16>>
            /\ \A n \in 1..MaxAttemptNumber :
                 /\ delay(n) = Min(RetryBaseDelay * 2^(n - 1), RetryMaxDelay)
                 /\ delay(n) <= RetryMaxDelay
                 /\ delay(n) <= delay(n + 1)

\* a retry of attempt 2 has just been scheduled with the delay of attempt 2
C20_Witness ==
    \E i \in Ids :
        /\ webhooks[i].status = "PROCESSING"
        /\ Len(Attempts(i)) = 2
        /\ LastAttempt(i).attempt_number = 2
        /\ webhooks[i].next_retry_at = now + Delay(2)

\* C16: a CLOSED circuit breaker has fewer than failure_threshold failures
\* counted; record_success in CLOSED resets the count to 0 and keeps it
\* CLOSED; record_failure in CLOSED counts one more and opens the circuit
\* exactly when the count reaches failure_threshold.
C16_ClosedOpensAtThreshold ==
    \A w \in Workers :
        LET cb == breakers[w]
            s == RecordSuccess(cb)
            f == RecordFailure(cb, now)
        IN  cb.state = "CLOSED" =>
              /\ cb.failure_count < FailureThreshold
              /\ s.state = "CLOSED" /\ s.failure_count = 0
              /\ f.failure_count = cb.failure_count + 1
              /\ f.state \in {"CLOSED", "OPEN"}
              /\ (f.state = "OPEN") <=> (cb.failure_count + 1 = FailureThreshold)

\* a circuit that record_failure has just opened at the threshold
C16_Witness ==
    \E w \in Workers :
        /\ breakers[w].state = "OPEN"
        /\ breakers[w].failure_count = FailureThreshold
        /\ breakers[w].last_failure_time = now

\* C17: while the circuit is OPEN, can_execute answers false and leaves it
\* OPEN as long as now - last_failure_time <= recovery_timeout; past that it
\* moves to HALF_OPEN with success_count 0 and answers true; record_success
\* and record_failure leave it OPEN.
C17_OpenUntilRecoveryTimeout ==
    \A w \in Workers :
        LET cb == breakers[w]
            can == CanExecute(cb, now)
        IN  cb.state = "OPEN" =>
              /\ cb.last_failure_time # Null
              /\ IF now - cb.last_failure_time <= RecoveryTimeout
                 THEN ~can.ok /\ can.cb = cb
                 ELSE /\ can.ok
                      /\ can.cb.state = "HALF_OPEN"
                      /\ can.cb.success_count = 0
              /\ RecordSuccess(cb).state = "OPEN"
              /\ RecordFailure(cb, now).state = "OPEN"

\* a circuit that can_execute has moved from OPEN to HALF_OPEN after the
\* recovery timeout
C17_Witness ==
    \E w \in Workers :
        /\ breakers[w].state = "HALF_OPEN"
        /\ breakers[w].success_count = 0
        /\ now - breakers[w].last_failure_time > RecoveryTimeout

\* C18: in HALF_OPEN can_execute answers true; fewer than half_open_requests
\* successes have been counted, record_success counts one more and closes
\* the circuit (failure_count 0) exactly when the count reaches
\* half_open_requests; record_failure sends it back to OPEN with
\* last_failure_time = now, and the next HALF_OPEN starts from success_count 0.
C18_HalfOpenClosesAfterSuccesses ==
    \A w \in Workers :
        LET cb == breakers[w]
            can == CanExecute(cb, now)
            s == RecordSuccess(cb)
            f == RecordFailure(cb, now)
        IN  /\ cb.state = "HALF_OPEN" =>
                /\ can.ok /\ can.cb = cb
                /\ cb.success_count < HalfOpenRequests
                /\ s.success_count = cb.success_count + 1
                /\ IF cb.success_count + 1 = HalfOpenRequests
                   THEN s.state = "CLOSED" /\ s.failure_count = 0
                   ELSE s.state = "HALF_OPEN"
                /\ f.state = "OPEN" /\ f.last_failure_time = now
            /\ (cb.state = "OPEN" /\ can.cb.state = "HALF_OPEN") =>
                can.cb.success_count = 0

\* a circuit closed again by half_open_requests successes in HALF_OPEN
C18_Witness ==
    \E w \in Workers :
        /\ breakers[w].state = "CLOSED"
        /\ breakers[w].success_count = HalfOpenRequests
        /\ breakers[w].failure_count = 0
        /\ breakers[w].last_failure_time # Null

\* event i is DELIVERED or FAILED_PERMANENTLY, or has a retry scheduled after
\* the last second of the clock
Settled(i) ==
    /\ i \in Ids
    /\ \/ IsTerminal(webhooks[i].status)
       \/ webhooks[i].next_retry_at > MaxTime

\* C13: under fair scheduling, with a worker that keeps running, every
\* ingested event eventually is DELIVERED or FAILED_PERMANENTLY (or, at the
\* end of the clock, has its next retry scheduled).
C13_EveryEventTerminates ==
    \A i \in Requests :
        (i \in Ids) ~> Settled(i)

\* C14: an event whose worker stopped between the claim and the write of the
\* outcome is eventually claimed again by a running worker (or has become
\* terminal, or, at the end of the clock, has its next retry scheduled).
C14_OrphanReclaimed ==
    \A w \in Workers : \A i \in Requests :
        (workers[w].pc = "stopped" /\ workers[w].event = i)
        ~> \/ \E v \in Workers \ {w} : Holds(v) /\ workers[v].event = i
           \/ Settled(i)

\* C21: the POST of a further attempt on an event is not made before the
\* next_retry_at stored on the event after its previous failed attempt: when
\* the outcome of a POST is written on an event that already has attempts,
\* the stored next_retry_at has been reached.
C21_AttemptsSpacedByBackoff ==
    [][ \A w \in Workers :
          (workers[w].pc = "posting" /\ workers'[w].pc = "drain") =>
              LET i == workers[w].event
              IN  Len(webhooks[i].delivery_attempts) >= 1 =>
                      webhooks[i].next_retry_at <= now ]_vars

\* C28: an event that is DELIVERED or FAILED_PERMANENTLY has at least one
\* recorded delivery attempt.
C28_TerminalHasAttempt ==
    \A i \in Ids :
        IsTerminal(webhooks[i].status) => Len(Attempts(i)) >= 1

\* an event delivered by its first attempt
C28_Witness ==
    \E i \in Ids :
        /\ webhooks[i].status = "DELIVERED"
        /\ Len(Attempts(i)) = 1
        /\ LastAttempt(i).success

\* C29: a claim changes only status (to PROCESSING) and version (+1) of the
\* event it returns: delivery_attempts and next_retry_at are unchanged.  An
\* event claimed from PROCESSING keeps its elapsed next_retry_at while it is
\* held, and an event claimed from RECEIVED has next_retry_at null.
C29_ClaimFrame ==
    [][ \A w \in Workers :
          (workers[w].pc = "drain" /\ workers'[w].pc \in {"posting", "skipped"}) =>
              LET i == workers'[w].event
                  before == webhooks[i]
                  after == webhooks'[i]
              IN  /\ after.status = "PROCESSING"
                  /\ after.version = before.version + 1
                  /\ after.delivery_attempts = before.delivery_attempts
                  /\ after.next_retry_at = before.next_retry_at
                  /\ after.received_at = before.received_at
                  /\ after.delivered_at = before.delivered_at
                  /\ after.failed_at = before.failed_at
                  /\ \A j \in Ids \ {i} : webhooks'[j] = webhooks[j]
                  /\ IF before.status = "RECEIVED"
                     THEN after.next_retry_at = Null
                     ELSE /\ before.status = "PROCESSING"
                          /\ after.next_retry_at # Null
                          /\ after.next_retry_at <= now ]_vars

\* a worker holds an event it claimed from PROCESSING, whose elapsed
\* next_retry_at is still stored while the delivery is in flight
C29_Witness ==
    \E w \in Workers :
        /\ workers[w].pc = "posting"
        /\ webhooks[workers[w].event].status = "PROCESSING"
        /\ webhooks[workers[w].event].next_retry_at # Null
        /\ webhooks[workers[w].event].next_retry_at <= now
        /\ Len(webhooks[workers[w].event].delivery_attempts) + 1
              = workers[w].attempt_number

\* C30: a rejection by the open circuit reschedules the event with the delay
\* backoff(len(delivery_attempts) + 1) of the event as it was claimed and
\* appends nothing, so the next rejection of the same event uses the same
\* delay; an event that was only ever rejected (no attempts) is never
\* scheduled further ahead than backoff(1).
C30_RejectionDelayConstant ==
    /\ [][ \A w \in Workers :
             (workers[w].pc = "skipped" /\ workers'[w].pc # "skipped") =>
                 LET i == workers[w].event
                     claimed_len == workers[w].attempt_number - 1
                 IN  /\ webhooks'[i].next_retry_at - now = Delay(claimed_len + 1)
                     /\ webhooks'[i].delivery_attempts = webhooks[i].delivery_attempts ]_vars
    /\ [](\A i \in Ids :
            (Len(Attempts(i)) = 0 /\ webhooks[i].next_retry_at # Null) =>
                webhooks[i].next_retry_at <= now + Delay(1))

\* an event without attempts that the open circuit has rejected twice, just
\* rescheduled with the delay of attempt 1
C30_Witness ==
    \E i \in Ids :
        /\ Len(Attempts(i)) = 0
        /\ webhooks[i].version >= 3
        /\ webhooks[i].status = "PROCESSING"
        /\ webhooks[i].next_retry_at = now + Delay(1)
        /\ \A w \in Workers : ~(Holds(w) /\ workers[w].event = i)

\* C24: an ingest that is answered as new creates exactly one record, with
\* status RECEIVED, version 1, no delivery attempts and null next_retry_at,
\* delivered_at and failed_at; the step touches no other record, no worker
\* and no circuit breaker (no downstream call); a RECEIVED record is changed
\* only by a worker's claim.
C24_IngestCreatesReceivedRecord ==
    [][ /\ \A r \in Requests :
             (reqs[r].pc # "done" /\ reqs'[r].pc = "done" /\ reqs'[r].id \notin Ids) =>
                 /\ Len(webhooks') = Len(webhooks) + 1
                 /\ reqs'[r].id = Len(webhooks')
        /\ Len(webhooks') # Len(webhooks) =>
             LET doc == webhooks'[Len(webhooks')]
             IN  /\ Len(webhooks') = Len(webhooks) + 1
                 /\ doc.status = "RECEIVED"
                 /\ doc.version = 1
                 /\ doc.delivery_attempts = <<>>
                 /\ doc.next_retry_at = Null
                 /\ doc.delivered_at = Null
                 /\ doc.failed_at = Null
                 /\ doc.received_at = now
                 /\ \A i \in Ids : webhooks'[i] = webhooks[i]
                 /\ workers' = workers
                 /\ breakers' = breakers
        /\ \A i \in Ids :
             (webhooks[i].status = "RECEIVED" /\ webhooks'[i] # webhooks[i]) =>
                 /\ webhooks'[i].status = "PROCESSING"
                 /\ \E w \in Workers :
                      /\ workers[w].pc = "drain"
                      /\ workers'[w].pc \in {"posting", "skipped"}
                      /\ workers'[w].event = i ]_vars

\* a request has been answered with the id of a new record that no worker
\* has claimed yet
C24_Witness ==
    \E r \in Requests :
        /\ Done(r)
        /\ reqs[r].id \in Ids
        /\ webhooks[reqs[r].id].status = "RECEIVED"
        /\ webhooks[reqs[r].id].version = 1
        /\ webhooks[reqs[r].id].received_at = reqs[r].received_at

\* C22: a request whose X-Signature is missing, empty or no HMAC of the body
\* is answered 401 and leaves the store and events_received_total unchanged,
\* whatever its body is (the signature is checked first).
C22_BadSignatureIs401 ==
    [][ \A r \in Requests :
          ( /\ reqs[r].pc = "new"
            /\ reqs'[r].pc = "rejected"
            /\ reqs'[r].x_signature # GenerateSignature(reqs'[r].body, NoSecret) ) =>
              /\ reqs'[r].status_code = 401
              /\ webhooks' = webhooks
              /\ EVENTS_RECEIVED' = EVENTS_RECEIVED ]_vars

\* C23: a request with a valid signature whose body is invalid JSON, or JSON
\* that is no object, is answered 400 and creates no record.
C23_MalformedBodyIs400 ==
    [][ \A r \in Requests :
          ( /\ reqs[r].pc = "new"
            /\ reqs'[r].pc = "rejected"
            /\ reqs'[r].x_signature = GenerateSignature(reqs'[r].body, NoSecret)
            /\ reqs'[r].body \notin JsonObjects ) =>
              /\ reqs'[r].status_code = 400
              /\ webhooks' = webhooks ]_vars

\* C27: validate_signature returns True for the signature generate_signature
\* gives for the same body and secret, and raises an error (never returns
\* True) for any signature that differs from it.
C27_ValidateMatchesGenerate ==
    \A r \in Requests :
        reqs[r].pc = "validated" =>
            LET q == reqs[r]
            IN  IF q.x_signature = GenerateSignature(q.body, q.secret)
                THEN q.result = "True"
                ELSE q.result \in {"HMACValidationError", "TypeError"}

\* one call validated a generated signature under a secret of its own, the
\* other was given the signature of another body
C27_Witness ==
    \E r, q \in Requests :
        /\ reqs[r].pc = "validated"
        /\ reqs[r].secret = "other-secret"
        /\ reqs[r].result = "True"
        /\ reqs[q].pc = "validated"
        /\ reqs[q].x_signature.kind = "hex"
        /\ reqs[q].x_signature.key = SecretKey(reqs[q].secret)
        /\ reqs[q].x_signature.payload # reqs[q].body
        /\ reqs[q].result = "HMACValidationError"

\* C25: start() on a running worker changes nothing, so a worker never has
\* more than one polling task; a worker whose stop() has returned starts no
\* claim and no HTTP call and writes nothing until it is started again.
C25_OneTaskNoneAfterStop ==
    /\ [](\A w \in Workers :
            /\ workers[w].tasks <= 1
            /\ workers[w].running <=> workers[w].tasks = 1
            /\ workers[w].running => StartUpdate(workers[w]) = workers[w])
    /\ [][ \A w \in Workers :
             /\ ( /\ workers[w].pc = "drain"
                  /\ workers'[w].pc \in {"posting", "skipped"} ) =>
                    workers[w].running
             /\ (~workers[w].running /\ ~workers'[w].running) =>
                    /\ workers'[w] = workers[w]
                    /\ breakers'[w] = breakers[w]
                    /\ webhooks' # webhooks =>
                         \/ Len(webhooks') > Len(webhooks)
                         \/ \E v \in Workers \ {w} : workers'[v] # workers[v] ]_vars

\* the worker has been stopped with a delivery in flight, and an event that
\* a poll would claim is waiting in the store
C25_Witness ==
    /\ ~workers[1].running
    /\ workers[1].tasks = 0
    /\ workers[1].event # 0
    /\ \E i \in Ids : Eligible(webhooks[i], now)

\* C26: an error while one event is processed never ends the polling loop:
\* a worker that leaves the drain loop or a delivery without finishing it
\* sleeps one poll interval, still running, and polls again; every event
\* that is eligible is eventually claimed.
C26_LoopSurvivesErrors ==
    /\ [][ \A w \in Workers :
             ( /\ workers[w].pc \in {"drain", "posting", "skipped"}
               /\ workers'[w].pc \notin {"drain", "posting", "skipped"} ) =>
                 /\ workers'[w].pc = "sleep"
                 /\ workers'[w].sleep_left = WorkerPollInterval
                 /\ workers'[w].running
                 /\ workers'[w].tasks = 1 ]_vars
    /\ (workers[1].pc = "sleep") ~> (workers[1].pc = "drain")
    /\ \A i \in Requests :
         (i \in Ids /\ Eligible(webhooks[i], now))
             ~> (workers[1].pc \in {"posting", "skipped"} /\ workers[1].event = i)

\* the write of an outcome has failed (the event is PROCESSING without an
\* attempt and without a retry time, and the worker does not hold it), and
\* the worker has delivered another event after the store's failures
C26_Witness ==
    /\ workers[1].pc = "sleep"
    /\ \E i, j \in Ids :
         /\ i # j
         /\ webhooks[i].status = "PROCESSING"
         /\ Len(Attempts(i)) = 0
         /\ webhooks[i].next_retry_at = Null
         /\ webhooks[j].status = "DELIVERED"
         /\ webhooks[j].delivered_at = MaxTime

\* C31: delivery_attempts is append-only: in every step the attempts of
\* every stored event are unchanged, or their sequence is the old one with
\* exactly one attempt added at its end.
C31_AttemptsAppendOnly ==
    [][ \A i \in Ids :
          LET old == webhooks[i].delivery_attempts
              new == webhooks'[i].delivery_attempts
          IN  \/ new = old
              \/ /\ Len(new) = Len(old) + 1
                 /\ SubSeq(new, 1, Len(old)) = old ]_vars

\* an event has been marked failed for good on top of earlier attempts
C31_Witness ==
    \E i \in Ids :
        /\ webhooks[i].status = "FAILED_PERMANENTLY"
        /\ Len(Attempts(i)) >= 2
        /\ ~LastAttempt(i).success

\* C32: no step removes a stored event; a step of the ingest endpoint
\* leaves every stored event as it is (also when it answers a duplicate),
\* and a stored event changes only in a step of a worker.
C32_OnlyWorkersChangeEvents ==
    [][ /\ Len(webhooks') >= Len(webhooks)
        /\ reqs' # reqs => \A i \in Ids : webhooks'[i] = webhooks[i]
        /\ \A i \in Ids :
             webhooks'[i] # webhooks[i] =>
                 /\ reqs' = reqs
                 /\ \E w \in Workers :
                      /\ workers[w].pc \in {"drain", "posting", "skipped"}
                      /\ workers'[w] # workers[w]
                      /\ workers[w].pc = "drain" => workers'[w].event = i
                      /\ workers[w].pc # "drain" => workers[w].event = i ]_vars

\* an event was ingested after a worker had delivered an earlier one
C32_Witness ==
    \E i, j \in Ids :
        /\ i < j
        /\ webhooks[i].status = "DELIVERED"
        /\ webhooks[i].delivered_at < webhooks[j].received_at
        /\ \E r \in Requests : Done(r) /\ reqs[r].id = j

\* C33: the circuit breaker starts CLOSED; whatever calls are made, its
\* state changes only CLOSED -> OPEN, OPEN -> HALF_OPEN, HALF_OPEN -> CLOSED
\* or HALF_OPEN -> OPEN; while it is OPEN its last failure time is set.
C33_BreakerTransitions ==
    /\ \A w \in Workers : breakers[w].state = "CLOSED"
    /\ [][ \A w \in Workers :
             \/ breakers'[w].state = breakers[w].state
             \/ <<breakers[w].state, breakers'[w].state>> \in
                   { <<"CLOSED", "OPEN">>, <<"OPEN", "HALF_OPEN">>,
                     <<"HALF_OPEN", "CLOSED">>, <<"HALF_OPEN", "OPEN">> } ]_vars
    /\ [](\A w \in Workers :
            breakers[w].state = "OPEN" => breakers[w].last_failure_time # Null)

\* one breaker is OPEN after a record_success that arrived while it was OPEN
\* (its failure count is back at 0), the other after a record_failure that
\* arrived while it was OPEN (its count is above the threshold)
C33_Witness ==
    \E v, w \in Workers :
        /\ breakers[v].state = "OPEN"
        /\ breakers[v].failure_count = 0
        /\ breakers[w].state = "OPEN"
        /\ breakers[w].failure_count > FailureThreshold

\* C34: every POST ends in exactly one update of the worker's circuit
\* breaker, a record_success when the attempt succeeded and a record_failure
\* otherwise, also when the store write of the outcome raises.
C34_OneBreakerUpdatePerPost ==
    [][ \A w \in Workers :
          (workers[w].pc = "posting" /\ workers'[w].pc # "posting") =>
              LET i == workers[w].event
                  old == webhooks[i].delivery_attempts
                  new == webhooks'[i].delivery_attempts
              IN  /\ breakers'[w] \in { RecordSuccess(breakers[w]),
                                        RecordFailure(breakers[w], now) }
                  /\ (Len(new) > Len(old) /\ new[Len(new)].success) =>
                         breakers'[w] = RecordSuccess(breakers[w])
                  /\ (Len(new) > Len(old) /\ ~new[Len(new)].success) =>
                         breakers'[w] = RecordFailure(breakers[w], now) ]_vars

\* C35: within one tick of a worker, whose claim query uses the now fixed at
\* the start of the tick, the worker claims only events that query selects;
\* after the worker's outcome write the event is terminal or has a
\* next_retry_at later than that now; an event the query does not select is
\* not selected later in the tick either; so no event is claimed twice in a
\* tick, and the drain loop ends when the query selects nothing.
C35_TickClaimsEachEventOnce ==
    [][ \A w \in Workers :
          LET q == workers[w].query_now
              InTick(pc) == pc \in {"drain", "posting", "skipped"}
          IN  /\ ( /\ workers[w].pc = "drain"
                   /\ workers'[w].pc \in {"posting", "skipped"} ) =>
                     Eligible(webhooks[workers'[w].event], q)
              /\ ( /\ workers[w].pc \in {"posting", "skipped"}
                   /\ workers'[w].pc = "drain" ) =>
                     LET doc == webhooks'[workers[w].event]
                     IN  \/ IsTerminal(doc.status)
                         \/ /\ doc.next_retry_at # Null
                            /\ doc.next_retry_at > q
              /\ (InTick(workers[w].pc) /\ InTick(workers'[w].pc)) =>
                     /\ workers'[w].query_now = q
                     /\ \A i \in Ids :
                          ~Eligible(webhooks[i], q) => ~Eligible(webhooks'[i], q)
              /\ (workers[w].pc = "drain" /\ workers'[w].pc = "sleep") =>
                     EligibleIds(q) = {}
              /\ ( /\ workers[w].pc = "drain"
                   /\ EligibleIds(q) = {}
                   /\ workers'[w] # workers[w] ) =>
                     workers'[w].pc = "sleep" ]_vars

\* worker 1 is in the tick in which it made a failed attempt on an event
\* that is now scheduled past the tick's now, and its query selects nothing
\* any more; the other worker has never polled
C35_Witness ==
    /\ workers[1].pc = "drain"
    /\ workers[1].query_now = now
    /\ \A v \in Workers \ {1} : workers[v].query_now = Null
    /\ EligibleIds(now) = {}
    /\ \E i \in Ids :
         /\ webhooks[i].status = "PROCESSING"
         /\ Len(Attempts(i)) >= 1
         /\ ~LastAttempt(i).success
         /\ webhooks[i].next_retry_at = now + Delay(Len(Attempts(i)))

====
